---- MODULE Spec2Model ----
(***************************************************************************)
(* The Wikipedia chatbot of a10.py: the pattern-action list pa_list, the   *)
(* dispatcher search_pa_list, the action functions and query_loop.         *)
(* The matcher (match, imported from match.py) is modelled from its        *)
(* description in spec.md section 4.1.                                      *)
(***************************************************************************)
EXTENDS Integers, Sequences, FiniteSets, TLC

VARIABLES
    pc,         \* position of query_loop
    registry,   \* the pattern-action list search_pa_list iterates over
    query,      \* the local `query` of query_loop: the tokenized utterance
    tried,      \* the values `mat` took in the for loop of search_pa_list
    invoked,    \* the calls act(mat) made during this turn
    outcome,    \* what the invoked action did (returned or raised)
    answers,    \* the local `answers` of query_loop
    shown       \* the lines printed for the current turn

vars == <<pc, registry, query, tried, invoked, outcome, answers, shown>>

(***************************************************************************)
(* Bounds                                                                  *)
(***************************************************************************)
MaxSrcLen == 7        \* longest utterance typed to the chatbot's own pa_list
MaxTestSrcLen == 5    \* longest utterance typed to a test registry
MaxPatLen == 3        \* longest pattern of a single-entry test registry

(***************************************************************************)
(* Matcher (spec.md 4.1)                                                   *)
(***************************************************************************)
Wildcard == "%"

NoMatch == [ok |-> FALSE, cap |-> <<>>]
Captured(words) == [ok |-> TRUE, cap |-> words]

RECURSIVE match(_, _)
RECURSIVE TrySpans(_, _, _)

\* TrySpans with the spans tried from 0 words: a wildcard may take nothing
TrySpans_FromNothing(pattern, source, L) ==
    IF L - 1 > Len(source) THEN NoMatch
    ELSE LET rest == match(Tail(pattern), SubSeq(source, L, Len(source)))
         IN  IF rest.ok
             THEN Captured(SubSeq(source, 1, L - 1) \o rest.cap)
             ELSE TrySpans(pattern, source, L + 1)

\* TrySpans with the spans tried longest first
TrySpans_LongestFirst(pattern, source, L) ==
    IF L > Len(source) THEN NoMatch
    ELSE LET n == Len(source) - L + 1
             rest == match(Tail(pattern), SubSeq(source, n + 1, Len(source)))
         IN  IF rest.ok
             THEN Captured(SubSeq(source, 1, n) \o rest.cap)
             ELSE TrySpans(pattern, source, L + 1)

\* Step 4: the wildcard consumes L words, L tried from 1 upwards.
TrySpans(pattern, source, L) ==
    IF L > Len(source) THEN NoMatch
    ELSE LET rest == match(Tail(pattern), SubSeq(source, L + 1, Len(source)))
         IN  IF rest.ok
             THEN Captured(SubSeq(source, 1, L) \o rest.cap)
             ELSE TrySpans(pattern, source, L + 1)

match(pattern, source) ==
    IF pattern = <<>>
    THEN IF source = <<>> THEN Captured(<<>>) ELSE NoMatch
    ELSE IF source = <<>> THEN NoMatch
    ELSE IF Head(pattern) = Wildcard THEN TrySpans(pattern, source, 1)
    ELSE IF Head(pattern) = Head(source)
         THEN match(Tail(pattern), Tail(source))
         ELSE NoMatch

(***************************************************************************)
(* External lookups and the action functions.  A call either returns a     *)
(* list of answers or raises; `arg` is the name handed to the lookup and   *)
(* `at` the place that raised.                                             *)
(***************************************************************************)
Texts == {"text", ""}    \* what a group of the regular expression can hold

Returned(list, name) ==
    [kind |-> "return", value |-> list, exc |-> "", at |-> "", arg |-> name]
Raised(e, place, name) ==
    [kind |-> "raise", value |-> <<>>, exc |-> e, at |-> place, arg |-> name]
NotCalled == [kind |-> "none", value |-> <<>>, exc |-> "", at |-> "", arg |-> ""]

\* " ".join(matches)
RECURSIVE Join(_)
Join(words) ==
    IF words = <<>> THEN ""
    ELSE IF Len(words) = 1 THEN words[1]
    ELSE words[1] \o " " \o Join(Tail(words))

\* get_page_html: results[0] of an empty search result
get_page_html(title) == {Raised("IndexError", "get_page_html", title)}

\* get_first_infobox_text: raise LookupError("Page has no infobox")
get_first_infobox_text(title) ==
    {Raised("LookupError", "get_first_infobox_text", title)}

\* get_match: raise AttributeError(error_text), else the match
get_match(title) ==
    {Raised("AttributeError", "get_match", title)}
        \cup {Returned(<<t>>, title) : t \in Texts}

\* clean_text(get_first_infobox_text(get_page_html(name))), then get_match
Lookup(name) ==
    get_page_html(name) \cup get_first_infobox_text(name) \cup get_match(name)

get_polar_radius(planet_name) == Lookup(planet_name)
get_birth_date(name) == Lookup(name)
get_university_motto(name) == Lookup(name)
get_artist_genre(name) == Lookup(name)
get_notable_work(painter_name) == Lookup(painter_name)

MovementErrorText == "Page infobox has no artistic movement information"

\* get_painter_movement calls re.search itself and returns error_text
get_painter_movement(painter_name) ==
    get_page_html(painter_name) \cup get_first_infobox_text(painter_name)
        \cup {Returned(<<t>>, painter_name) : t \in Texts \cup {MovementErrorText}}

\* matches[0] of an empty list
NoFirstWord == {Raised("IndexError", "matches[0]", "")}

notable_work(matches) == get_notable_work(Join(matches))

university_motto(matches) ==
    IF matches = <<>> THEN NoFirstWord ELSE get_university_motto(matches[1])

painter_movement(matches) ==
    IF matches = <<>> THEN NoFirstWord ELSE get_painter_movement(matches[1])

artist_genre(matches) ==
    IF matches = <<>> THEN NoFirstWord ELSE get_artist_genre(matches[1])

birth_date(matches) == get_birth_date(Join(matches))

polar_radius(matches) ==
    IF matches = <<>> THEN NoFirstWord ELSE get_polar_radius(matches[1])

bye_action(dummy) == {Raised("KeyboardInterrupt", "bye_action", "")}

\* An action of a test registry: any list of answers, or a failed lookup.
TestReturns == {<<>>, <<"x">>, <<"x", "y">>}
TestAction(matches) ==
    {Returned(r, Join(matches)) : r \in TestReturns}
        \cup {Raised("LookupError", "test action", Join(matches))}

FactActions ==
    {"birth_date", "polar_radius", "painter_movement", "artist_genre",
     "university_motto", "notable_work"}

\* act(mat): the outcomes the call can have
Call(act, mat) ==
    CASE act = "birth_date" -> birth_date(mat)
      [] act = "polar_radius" -> polar_radius(mat)
      [] act = "painter_movement" -> painter_movement(mat)
      [] act = "artist_genre" -> artist_genre(mat)
      [] act = "university_motto" -> university_motto(mat)
      [] act = "notable_work" -> notable_work(mat)
      [] act = "bye_action" -> bye_action(mat)
      [] OTHER -> TestAction(mat)

(***************************************************************************)
(* The pattern-action list                                                 *)
(***************************************************************************)
Entry(pat, act) == [pat |-> pat, act |-> act]

\* pa_list with the pattern of painter_movement left on notable_work
pa_list_CopiedPattern ==
    << Entry(<<"when", "was", "%", "born">>, "birth_date"),
       Entry(<<"what", "is", "the", "polar", "radius", "of", "%">>, "polar_radius"),
       Entry(<<"what", "is", "the", "movement", "of", "%">>, "painter_movement"),
       Entry(<<"what", "genre", "is", "%">>, "artist_genre"),
       Entry(<<"what", "is", "the", "motto", "of", "%">>, "university_motto"),
       Entry(<<"what", "is", "the", "movement", "of", "%">>, "notable_work"),
       Entry(<<"bye">>, "bye_action") >>

\* pa_list with the wildcard of artist_genre's pattern forgotten
pa_list_MissingWildcard ==
    << Entry(<<"when", "was", "%", "born">>, "birth_date"),
       Entry(<<"what", "is", "the", "polar", "radius", "of", "%">>, "polar_radius"),
       Entry(<<"what", "is", "the", "movement", "of", "%">>, "painter_movement"),
       Entry(<<"what", "genre", "is">>, "artist_genre"),
       Entry(<<"what", "is", "the", "motto", "of", "%">>, "university_motto"),
       Entry(<<"what", "is", "one", "work", "from", "%">>, "notable_work"),
       Entry(<<"bye">>, "bye_action") >>

pa_list ==
    << Entry(<<"when", "was", "%", "born">>, "birth_date"),
       Entry(<<"what", "is", "the", "polar", "radius", "of", "%">>, "polar_radius"),
       Entry(<<"what", "is", "the", "movement", "of", "%">>, "painter_movement"),
       Entry(<<"what", "genre", "is", "%">>, "artist_genre"),
       Entry(<<"what", "is", "the", "motto", "of", "%">>, "university_motto"),
       Entry(<<"what", "is", "one", "work", "from", "%">>, "notable_work"),
       Entry(<<"bye">>, "bye_action") >>

\* Registries for exercising search_pa_list and match on their own.
TestTokens == {"a", "b", Wildcard}

RECURSIVE PatternsOfLen(_)
PatternsOfLen(n) ==
    IF n = 0 THEN {<<>>}
    ELSE {Append(p, t) : p \in PatternsOfLen(n - 1), t \in TestTokens}

TestPatterns == UNION {PatternsOfLen(n) : n \in 0..MaxPatLen}

OverlapPatterns ==
    {<<"%">>, <<"a", "%">>, <<"%", "b">>, <<"a", "b">>, <<"%", "%">>}

TestRegistries ==
    {<<Entry(p, "H1")>> : p \in TestPatterns}
        \cup {<<Entry(p, "H1"), Entry(q, "H2")>> :
                 p \in OverlapPatterns, q \in OverlapPatterns}
        \cup {<<Entry(<<"bye">>, "bye_action"), Entry(<<"%">>, "H1")>>,
              <<Entry(<<"%">>, "H1"), Entry(<<"bye">>, "bye_action")>>}

(***************************************************************************)
(* Utterances: what input(...).replace("?", "").lower().split() can give.  *)
(* For pa_list, a word of the utterance is only ever compared with the     *)
(* literals that can stand at its position (the literal at that position   *)
(* of a pattern, or a literal that follows a wildcard), so each position   *)
(* draws from those literals, from a word that is no literal, and from a   *)
(* near miss of "bye".  A test registry is given every sequence over its   *)
(* literals and the words a and b.                                         *)
(***************************************************************************)
OtherWord == "ada"
TestWords == {"a", "b"}

WildcardBefore(pat, j) == \E k \in 1..(j - 1) : pat[k] = Wildcard

Literals(reg) ==
    UNION {{reg[e].pat[j] : j \in DOMAIN reg[e].pat} : e \in DOMAIN reg}
        \ {Wildcard}

MeetingLiterals(reg, i) ==
    UNION {{reg[e].pat[j] : j \in {k \in DOMAIN reg[e].pat :
                                     /\ k <= i
                                     /\ reg[e].pat[k] # Wildcard
                                     /\ (k = i \/ WildcardBefore(reg[e].pat, k))}}
           : e \in DOMAIN reg}

NearMisses(reg, i) ==
    IF "bye" \in MeetingLiterals(reg, i) THEN {"goodbye"} ELSE {}

WordsAt(reg, i) ==
    IF reg = pa_list
    THEN MeetingLiterals(reg, i) \cup {OtherWord} \cup NearMisses(reg, i)
    ELSE TestWords \cup Literals(reg)

RECURSIVE UtterancesOfLen(_, _)
UtterancesOfLen(reg, n) ==
    IF n = 0 THEN {<<>>}
    ELSE {Append(s, w) : s \in UtterancesOfLen(reg, n - 1), w \in WordsAt(reg, n)}

SrcBound(reg) == IF reg = pa_list THEN MaxSrcLen ELSE MaxTestSrcLen

Utterances(reg) == UNION {UtterancesOfLen(reg, n) : n \in 0..SrcBound(reg)}

(***************************************************************************)
(* search_pa_list                                                          *)
(***************************************************************************)
\* the for loop without its return: the last matching entry wins
RECURSIVE TryFrom_LastMatch(_, _, _)
TryFrom_LastMatch(reg, src, i) ==
    IF i > Len(reg) THEN <<>>
    ELSE LET mat == match(reg[i].pat, src)
             later == TryFrom_LastMatch(reg, src, i + 1)
         IN  IF mat.ok /\ (later = <<>> \/ ~later[Len(later)].ok)
             THEN <<mat>>
             ELSE <<mat>> \o later

\* the for loop: the successive values of mat, up to the first match
RECURSIVE TryFrom(_, _, _)
TryFrom(reg, src, i) ==
    IF i > Len(reg) THEN <<>>
    ELSE LET mat == match(reg[i].pat, src)
         IN  IF mat.ok THEN <<mat>> ELSE <<mat>> \o TryFrom(reg, src, i + 1)

\* `if mat:` in place of `if mat is not None:`
Found_Truthy(ms) == ms # <<>> /\ ms[Len(ms)].ok /\ ms[Len(ms)].cap # <<>>

\* mat is not None, for the last value mat took
Found(ms) == ms # <<>> /\ ms[Len(ms)].ok

\* the two canned answers swapped
DontUnderstand_Swapped == <<"No answers">>

NoAnswers == <<"No answers">>
DontUnderstand == <<"I don't understand">>

\* `return answer`
OrNoAnswers_Unchecked(answer) == answer

\* answer if answer else ["No answers"]
OrNoAnswers(answer) == IF answer = <<>> THEN NoAnswers ELSE answer

(***************************************************************************)
(* query_loop                                                              *)
(***************************************************************************)
StartWith(reg) ==
    /\ pc = "awaiting"
    /\ registry = reg
    /\ query = <<>>
    /\ tried = <<>>
    /\ invoked = <<>>
    /\ outcome = NotCalled
    /\ answers = <<>>
    /\ shown = <<>>

Init == StartWith(pa_list)

InitAny == \E reg \in TestRegistries \cup {pa_list} : StartWith(reg)

\* query = input("Your query? ")...split()
ReadQuery ==
    /\ pc = "awaiting"
    /\ \E src \in Utterances(registry) : query' = src
    /\ pc' = "matching"
    /\ tried' = <<>>
    /\ invoked' = <<>>
    /\ outcome' = NotCalled
    /\ answers' = <<>>
    /\ shown' = <<>>
    /\ UNCHANGED registry

\* input raises EOFError or KeyboardInterrupt: except ...: break
InputInterrupted ==
    /\ pc = "awaiting"
    /\ pc' = "terminated"
    /\ query' = <<>>
    /\ tried' = <<>>
    /\ invoked' = <<>>
    /\ \E e \in {"EOFError", "KeyboardInterrupt"} : outcome' = Raised(e, "input", "")
    /\ answers' = <<>>
    /\ shown' = <<>>
    /\ UNCHANGED registry

\* search_pa_list falls out of the loop
DispatchNoMatch ==
    /\ pc = "matching"
    /\ LET ms == TryFrom(registry, query, 1)
       IN  /\ ~Found(ms)
           /\ tried' = ms
    /\ answers' = DontUnderstand
    /\ pc' = "printing"
    /\ UNCHANGED <<registry, query, invoked, outcome, shown>>

\* search_pa_list calls the action of the first match; the action's outcome is
\* one of `kinds`, and an exception it raises is one of `excs`
Invoke(kinds, excs) ==
    LET ms == TryFrom(registry, query, 1)
    IN  /\ Found(ms)
        /\ tried' = ms
        /\ LET act == registry[Len(ms)].act
               mat == ms[Len(ms)].cap
           IN  /\ invoked' = <<[index |-> Len(ms), act |-> act, mat |-> mat]>>
               /\ \E o \in Call(act, mat) :
                     /\ o.kind \in kinds
                     /\ (o.kind = "raise") => (o.exc \in excs)
                     /\ outcome' = o
                     /\ answers' = IF o.kind = "return"
                                   THEN OrNoAnswers(o.value) ELSE <<>>

\* except (KeyboardInterrupt, EOFError): break
Caught == {"KeyboardInterrupt", "EOFError"}
Uncaught == {"IndexError", "LookupError", "AttributeError"}

\* the action returns its list of answers
DispatchAnswer ==
    /\ pc = "matching"
    /\ Invoke({"return"}, {})
    /\ pc' = "printing"
    /\ UNCHANGED <<registry, query, shown>>

\* the action raises KeyboardInterrupt, which query_loop catches: break
DispatchTerminate ==
    /\ pc = "matching"
    /\ Invoke({"raise"}, Caught)
    /\ pc' = "terminated"
    /\ UNCHANGED <<registry, query, shown>>

\* the action raises an exception that query_loop does not catch
DispatchFailure ==
    /\ pc = "matching"
    /\ Invoke({"raise"}, Uncaught)
    /\ pc' = "crashed"
    /\ UNCHANGED <<registry, query, shown>>

\* for ans in answers: print(ans)
PrintAnswers ==
    /\ pc = "printing"
    /\ shown' = answers
    /\ pc' = "awaiting"
    /\ query' = <<>>
    /\ tried' = <<>>
    /\ invoked' = <<>>
    /\ outcome' = NotCalled
    /\ answers' = <<>>
    /\ UNCHANGED registry

Next ==
    \/ ReadQuery
    \/ InputInterrupted
    \/ DispatchNoMatch
    \/ DispatchAnswer
    \/ DispatchTerminate
    \/ DispatchFailure
    \/ PrintAnswers

Spec == Init /\ [][Next]_vars

SpecAny == InitAny /\ [][Next]_vars

(***************************************************************************)
(* Vocabulary of the properties                                            *)
(***************************************************************************)
\* search_pa_list has run on `query`: it returned, or the action it called raised
TurnDone ==
    \/ pc = "printing"
    \/ pc \in {"terminated", "crashed"} /\ invoked # <<>>

\* the entries of the registry whose pattern matches the utterance
MatchingEntries == {i \in DOMAIN registry : match(registry[i].pat, query).ok}

LeastOf(S) == CHOOSE i \in S : \A j \in S : i <= j

IsWildcardFree(pat) == \A j \in DOMAIN pat : pat[j] # Wildcard

\* every way of giving each token of `pat` a number of words, `total` in all:
\* one word for a literal, one or more for a wildcard
RECURSIVE SpanLists(_, _)
SpanLists(pat, total) ==
    IF pat = <<>> THEN (IF total = 0 THEN {<<>>} ELSE {})
    ELSE UNION {{<<n>> \o rest : rest \in SpanLists(Tail(pat), total - n)} :
                   n \in (IF Head(pat) = Wildcard THEN 1..total
                          ELSE IF total >= 1 THEN {1} ELSE {})}

RECURSIVE SumOf(_)
SumOf(ns) == IF ns = <<>> THEN 0 ELSE Head(ns) + SumOf(Tail(ns))

\* the run of source words that token j takes under the span list d
RunOf(src, d, j) ==
    LET start == SumOf(SubSeq(d, 1, j - 1)) + 1
    IN  SubSeq(src, start, start + d[j] - 1)

\* the span lists under which every literal meets its own word
Decompositions(pat, src) ==
    {d \in SpanLists(pat, Len(src)) :
        \A j \in DOMAIN pat : pat[j] # Wildcard => RunOf(src, d, j) = <<pat[j]>>}

\* the wildcards' runs, concatenated in pattern order
RECURSIVE RunsFrom(_, _, _, _)
RunsFrom(pat, src, d, j) ==
    IF j > Len(pat) THEN <<>>
    ELSE (IF pat[j] = Wildcard THEN RunOf(src, d, j) ELSE <<>>)
             \o RunsFrom(pat, src, d, j + 1)

CaptureOf(pat, src, d) == RunsFrom(pat, src, d, 1)

\* d comes before e, or is e, in the lexicographic order of span lengths
LexLeq(d, e) ==
    \/ d = e
    \/ \E k \in DOMAIN d :
          /\ d[k] < e[k]
          /\ \A j \in 1..(k - 1) : d[j] = e[j]

(***************************************************************************)
(* Properties                                                              *)
(***************************************************************************)

\* C1: once search_pa_list has run on an utterance that some entry matches, it
\* has called exactly one action: that of the lowest-index matching entry,
\* with that entry's capture, and it has tried no entry after that one, even
\* when a later entry matches too.
C1_FirstMatchingEntryWins ==
    /\ Len(invoked) <= 1
    /\ (TurnDone /\ MatchingEntries # {}) =>
          LET first == LeastOf(MatchingEntries)
          IN  /\ invoked = <<[index |-> first,
                              act |-> registry[first].act,
                              mat |-> match(registry[first].pat, query).cap]>>
              /\ Len(tried) = first

C1_Witness ==
    /\ TurnDone
    /\ Cardinality(MatchingEntries) >= 2
    /\ invoked # <<>>
    /\ invoked[1].act = "H1"
    /\ registry[2].act = "H2"

\* C2: once search_pa_list has run on an utterance that no entry matches, it
\* has returned exactly ["I don't understand"] and has called no action.
C2_NoMatchFallback ==
    (TurnDone /\ MatchingEntries = {}) =>
        /\ pc = "printing"
        /\ answers = <<"I don't understand">>
        /\ invoked = <<>>
        /\ outcome = NotCalled

C2_Witness ==
    /\ pc = "printing"
    /\ MatchingEntries = {}
    /\ query = <<"what", "is", "the", "motto">>
    /\ answers = <<"I don't understand">>

\* C3: when the action called returns an empty list, search_pa_list returns
\* ["No answers"]; when it returns a non-empty list, search_pa_list returns
\* that list unchanged.
C3_EmptyResultNormalised ==
    (pc = "printing" /\ outcome.kind = "return") =>
        answers = IF outcome.value = <<>> THEN <<"No answers">> ELSE outcome.value

C3_Witness ==
    /\ pc = "printing"
    /\ outcome.kind = "return"
    /\ outcome.value = <<>>
    /\ answers = <<"No answers">>

\* C4: on ["bye"] the bye entry matches with an empty capture, bye_action is
\* called and raises KeyboardInterrupt, no answer is produced or printed, no
\* further pattern is tried and the loop has ended: nothing more is read.  On
\* ["goodbye"] the answer is ["I don't understand"] and the loop goes on.
C4_ByeEndsTheLoop ==
    /\ (TurnDone /\ query = <<"bye">>) =>
          /\ pc = "terminated"
          /\ tried # <<>>
          /\ tried[Len(tried)] = [ok |-> TRUE, cap |-> <<>>]
          /\ registry[Len(tried)].pat = <<"bye">>
          /\ invoked = <<[index |-> Len(tried), act |-> "bye_action", mat |-> <<>>]>>
          /\ outcome.exc = "KeyboardInterrupt"
          /\ answers = <<>>
          /\ shown = <<>>
          /\ ~ENABLED ReadQuery
          /\ ~ENABLED PrintAnswers
    /\ (TurnDone /\ query = <<"goodbye">>) =>
          /\ pc = "printing"
          /\ answers = <<"I don't understand">>
          /\ invoked = <<>>
          /\ ENABLED (PrintAnswers /\ pc' = "awaiting")

C4_Witness ==
    /\ pc = "terminated"
    /\ query = <<"bye">>
    /\ invoked # <<>>
    /\ invoked[1].act = "bye_action"

\* C5: a failure raised by an action's lookup (no search result, page without
\* infobox, fact pattern not found) never gets past the dispatcher and never
\* ends the conversation: the loop only ever stops on the termination outcome.
C5_LookupFailureNeverEndsConversation ==
    /\ pc # "crashed"
    /\ (TurnDone /\ outcome.kind = "raise"
            /\ outcome.exc \in {"IndexError", "LookupError", "AttributeError"}) =>
          ENABLED ReadQuery \/ ENABLED PrintAnswers

\* C6: match(P, S) succeeds exactly when S decomposes along P (one word equal
\* to each literal, one or more words for each wildcard); the capture is then
\* the wildcards' runs of one decomposition, in pattern order; a pattern
\* without wildcards succeeds exactly on S = P, with an empty capture; and a
\* failure is not the empty capture.
C6_MatchIsDecomposition ==
    \A i \in DOMAIN tried :
        LET pat == registry[i].pat
            mat == tried[i]
            ds == Decompositions(pat, query)
        IN  /\ mat.ok <=> ds # {}
            /\ mat.ok => \E d \in ds : mat.cap = CaptureOf(pat, query, d)
            /\ IsWildcardFree(pat) => (mat.ok <=> pat = query)
            /\ (IsWildcardFree(pat) /\ mat.ok) => mat.cap = <<>>
            /\ ~mat.ok => mat # [ok |-> TRUE, cap |-> <<>>]

C6_Witness ==
    /\ TurnDone
    /\ registry = <<Entry(<<"%", "b", "%">>, "H1")>>
    /\ query = <<"a", "b", "b", "a">>
    /\ tried = <<[ok |-> TRUE, cap |-> <<"a", "b", "a">>]>>

\* C7: among the decompositions of the source along the pattern, match
\* returns the capture of the one whose span lengths come first in
\* lexicographic order; ["%", "b"] against ["b", "b"] captures ["b"]; and the
\* result is the same whenever pattern and source are.
C7_ShortestFirst ==
    \A i \in DOMAIN tried :
        LET pat == registry[i].pat
            mat == tried[i]
            ds == Decompositions(pat, query)
        IN  /\ mat.ok =>
                  \E d \in ds :
                      /\ \A e \in ds : LexLeq(d, e)
                      /\ mat.cap = CaptureOf(pat, query, d)
            /\ (pat = <<"%", "b">> /\ query = <<"b", "b">>) =>
                  mat = [ok |-> TRUE, cap |-> <<"b">>]
            /\ mat = match(pat, query)

C7_Witness ==
    /\ TurnDone
    /\ registry = <<Entry(<<"%", "b", "%">>, "H1")>>
    /\ query = <<"a", "b", "a", "b", "a">>
    /\ tried = <<[ok |-> TRUE, cap |-> <<"a", "a", "b", "a">>]>>

\* C8: every fact-lookup action hands its lookup all captured words joined by
\* single spaces, in capture order.
C8_LookupGetsWholeCapture ==
    (invoked # <<>> /\ invoked[1].act \in FactActions) =>
        outcome.arg = Join(invoked[1].mat)

\* C9: for pa_list, an utterance matches at most one entry, so the entry
\* search_pa_list picks is the one it would pick with the entries in any
\* other order: the first matching entry is also the last.
C9_AtMostOneEntryMatches ==
    /\ Cardinality(MatchingEntries) <= 1
    /\ TurnDone =>
          \A i \in MatchingEntries :
              invoked = <<[index |-> i,
                           act |-> registry[i].act,
                           mat |-> match(registry[i].pat, query).cap]>>

C9_Witness ==
    /\ TurnDone
    /\ query = <<"what", "is", "the", "movement", "of", "ada">>
    /\ MatchingEntries = {3}
    /\ invoked # <<>>
    /\ invoked[1].act = "painter_movement"

\* C10: every fact-lookup action is called with a non-empty capture, so its
\* matches[0] is defined; only bye_action is ever called with an empty one.
C10_FactActionsGetAWord ==
    \A c \in DOMAIN invoked :
        /\ invoked[c].act # "bye_action" => invoked[c].mat # <<>>
        /\ invoked[c].mat = <<>> => invoked[c].act = "bye_action"
        /\ outcome.at # "matches[0]"

C10_Witness ==
    /\ TurnDone
    /\ invoked # <<>>
    /\ invoked[1].act = "university_motto"
    /\ Len(invoked[1].mat) = 2
    /\ outcome.kind = "return"

====
